---- MODULE Spec2Model ----
(***************************************************************************)
(* Model of src/faturas_fake_generator/generator.py: the invoice feature   *)
(* pipeline build_fake_dataframe.  The table (a pandas DataFrame) is a     *)
(* sequence of rows in physical order; a row is a function from column     *)
(* names to values.  Floating-point numbers are modelled exactly:          *)
(*   - source values (vl_fatura, dias_pagamento, total_devido) are         *)
(*     integers;                                                           *)
(*   - a mean is a reduced fraction <<n, d>> with d > 0;                   *)
(*   - a standard deviation sd is stored as its radicand, the reduced      *)
(*     fraction sd^2 (sd = 0 iff sd^2 = 0);                                *)
(*   - a z-score z is stored as [sinal, quad]: its sign and the reduced    *)
(*     fraction z^2;                                                       *)
(*   - NaN is <<0, 0>>.                                                    *)
(* The columns age and location of create_dataframe are read by no stage   *)
(* and are left out of the rows.                                           *)
(***************************************************************************)
EXTENDS Integers, Sequences, FiniteSets, TLC

VARIABLES pc, cfg, df_clientes, df_faturas, df

vars == <<pc, cfg, df_clientes, df_faturas, df>>

(***************************************************************************)
(* Bounds of the model.                                                    *)
(***************************************************************************)
\* n_faturas_max of a short run
MaxFaturas == 3
\* invoices beyond the 12-invoice window in a long run
Folga == 3

\* names the identity provider can return; NomeOrd is their string order
Nomes == {"A", "B"}
NomeOrd == [n \in Nomes |-> IF n = "A" THEN 1 ELSE 2]

\* customers of a short run (size): as many as there are names
MaxClientes == Cardinality(Nomes)

(***************************************************************************)
(* Program constants.                                                      *)
(***************************************************************************)
TailMedia == 12
TailSd == 12
MesesFrequencia == 12
MesesPagos == 3
MesesNaoPagos == 12

(***************************************************************************)
(* Numbers.                                                                *)
(***************************************************************************)
Abs(x) == IF x < 0 THEN -x ELSE x

Min2(a, b) == IF a <= b THEN a ELSE b

Max2(a, b) == IF a >= b THEN a ELSE b

RECURSIVE GCD(_, _)
GCD(a, b) == IF b = 0 THEN a ELSE GCD(b, a % b)

NaN == <<0, 0>>

IsNaN(q) == q = NaN

\* the fraction n/d, d > 0, reduced
Frac(n, d) == LET g == GCD(Abs(n), d) IN <<n \div g, d \div g>>

ToFloat(v) == <<v, 1>>

Zero == [sinal |-> 0, quad |-> <<0, 1>>]

ZNaN == [sinal |-> 0, quad |-> NaN]

Sinal(x) == IF x > 0 THEN 1 ELSE IF x < 0 THEN -1 ELSE 0

RECURSIVE SeqSum(_)
SeqSum(s) == IF s = <<>> THEN 0 ELSE Head(s) + SeqSum(Tail(s))

RECURSIVE SeqSumSq(_)
SeqSumSq(s) == IF s = <<>> THEN 0 ELSE Head(s) * Head(s) + SeqSumSq(Tail(s))

\* pandas Series.tail(n)
TailN(s, n) == IF Len(s) <= n THEN s ELSE SubSeq(s, Len(s) - n + 1, Len(s))

\* pandas Series.mean(): NaN for an empty series
Mean(s) == IF Len(s) = 0 THEN NaN ELSE Frac(SeqSum(s), Len(s))

\* pandas Series.std() (ddof = 1), as sd^2: NaN for fewer than two values
Std(s) ==
    LET n == Len(s) IN
    IF n < 2 THEN NaN
    ELSE Frac(n * SeqSumSq(s) - SeqSum(s) * SeqSum(s), n * (n - 1))

\* pandas Series.sum()
Sum(s) == SeqSum(s)

(***************************************************************************)
(* Table primitives.                                                       *)
(***************************************************************************)
\* the function f on 1..n as a sequence in extension
AsSeq(f, n) == SubSeq(f, 1, n)

\* df[col] = values, one per row
SetColumn(tab, col, vals) ==
    AsSeq([i \in 1..Len(tab) |-> (col :> vals[i]) @@ tab[i]], Len(tab))

HasColumn(tab, col) == Len(tab) > 0 /\ col \in DOMAIN tab[1]

\* Series.unique(): distinct values in order of first appearance
RECURSIVE Unique(_)
Unique(s) ==
    IF s = <<>> THEN <<>>
    ELSE LET r == Unique(SubSeq(s, 1, Len(s) - 1))
             x == s[Len(s)]
         IN IF \E i \in 1..Len(r) : r[i] = x THEN r ELSE Append(r, x)

ClientesUnicos(tab) == Unique([i \in 1..Len(tab) |-> tab[i]["cliente"]])

\* faulty variant of ClienteIndices: the customer filter forgotten
TodosIndices(tab, cliente) == AsSeq([i \in 1..Len(tab) |-> i], Len(tab))

\* df[df['cliente'] == cliente].index: the positions of the customer's rows
ClienteIndices(tab, cliente) ==
    SelectSeq(AsSeq([i \in 1..Len(tab) |-> i], Len(tab)),
              LAMBDA i : tab[i]["cliente"] = cliente)

KeyLess(r1, r2) ==
    \/ NomeOrd[r1["cliente"]] < NomeOrd[r2["cliente"]]
    \/ /\ r1["cliente"] = r2["cliente"]
       /\ r1["numero_fatura"] < r2["numero_fatura"]

SameKey(r1, r2) ==
    r1["cliente"] = r2["cliente"] /\ r1["numero_fatura"] = r2["numero_fatura"]

\* df.sort_values(by=['cliente', 'numero_fatura']): stable
RECURSIVE SortFrom(_, _)
SortFrom(tab, left) ==
    IF left = {} THEN <<>>
    ELSE LET m == CHOOSE i \in left : \A j \in left : ~KeyLess(tab[j], tab[i])
             same == {j \in left : SameKey(tab[j], tab[m])}
         IN SelectSeq(tab, LAMBDA r : SameKey(r, tab[m])) \o SortFrom(tab, left \ same)

\* (a table already in order is its own stable sort)
SortValues(tab) ==
    IF \A i \in 1..(Len(tab) - 1) : ~KeyLess(tab[i + 1], tab[i])
    THEN tab
    ELSE SortFrom(tab, DOMAIN tab)

(***************************************************************************)
(* Random draws.  A draw of n values is one of the vectors that hold the   *)
(* draw's base value everywhere but in at most one entry.                  *)
(***************************************************************************)
Desvios(P) == {{}} \cup {{i} : i \in P}

\* the integers a uniform draw between lo and hi can give
Uniform(lo, hi) == Min2(lo, hi)..Max2(lo, hi)

\* np.random.normal(media, desvio, n); a negative desvio raises, so yields nothing
Normal(media, desvio, n) ==
    IF desvio < 0 THEN {}
    ELSE {[i \in 1..n |-> IF i \in S THEN media + desvio ELSE media] :
             S \in Desvios(1..n)}

(***************************************************************************)
(* Configurations build_fake_dataframe is called with.                     *)
(***************************************************************************)
Config(size, nmin, nmax, sdmin, sdmax, atrasomax, antecipadomin) ==
    [size |-> size, n_faturas_min |-> nmin, n_faturas_max |-> nmax,
     valor_minimo |-> 1, valor_maximo |-> 1, sd_min |-> sdmin, sd_max |-> sdmax,
     dias_min_atraso |-> 1, dias_max_atraso |-> atrasomax,
     dias_min_antecipado |-> antecipadomin, dias_max_antecipado |-> 0]

\* up to MaxClientes customers of up to MaxFaturas invoices
ConfigsCurtas == {Config(s, 1, MaxFaturas, 1, 1, 1, 0) : s \in 1..MaxClientes}

\* one customer whose invoices outnumber the 12-invoice window by Folga
ConfigsLongas == {Config(1, TailMedia + Folga, TailMedia + Folga, 1, 1, 1, 0)}

\* one customer, day offsets drawn from ranges of two values
ConfigsDias == {Config(1, MaxFaturas, MaxFaturas, 1, 1, 2, -1)}

\* n_faturas_min > n_faturas_max; sd negative; sd zero; sd negative or zero
ConfigsMalformadas == {Config(1, 2, 1, 1, 1, 1, 0), Config(1, 1, 1, -1, -1, 1, 0),
                       Config(1, 1, 1, 0, 0, 1, 0), Config(1, 1, 1, -1, 0, 1, 0)}

Configs == ConfigsCurtas \cup ConfigsLongas \cup ConfigsDias \cup ConfigsMalformadas

Init ==
    /\ pc = "inicio"
    /\ cfg \in Configs
    /\ df_clientes = <<>>
    /\ df_faturas = <<>>
    /\ df = <<>>

(***************************************************************************)
(* create_dataframe                                                        *)
(***************************************************************************)
CreateDataframe ==
    /\ pc = "inicio"
    /\ \E nomes \in [1..cfg.size -> Nomes] :
          df_clientes' = [i \in 1..cfg.size |-> [cliente |-> nomes[i]]]
    /\ pc' = "clientes"
    /\ UNCHANGED <<cfg, df_faturas, df>>

(***************************************************************************)
(* gerar_faturas                                                           *)
(***************************************************************************)
\* faulty variant: cumcount() without the + 1
CumCountZero(tab) ==
    [i \in 1..Len(tab) |->
        Cardinality({j \in 1..(i - 1) : tab[j]["cliente"] = tab[i]["cliente"]})]

\* df_faturas.groupby('cliente').cumcount() + 1
CumCount(tab) ==
    [i \in 1..Len(tab) |->
        Cardinality({j \in 1..(i - 1) : tab[j]["cliente"] = tab[i]["cliente"]}) + 1]

RECURSIVE DadosFaturas(_, _, _)
DadosFaturas(clientes, valores, i) ==
    IF i > Len(clientes) THEN <<>>
    ELSE [k \in 1..Len(valores[i]) |-> [cliente |-> clientes[i], vl_fatura |-> valores[i][k]]]
         \o DadosFaturas(clientes, valores, i + 1)

TabelaFaturas(clientes, valores) ==
    LET dados == DadosFaturas(clientes, valores, 1)
    IN SetColumn(dados, "numero_fatura", CumCount(dados))

\* what one customer's draws can be: count, mean, sd, amounts
SorteiosCliente ==
    UNION {{[num |-> n, media |-> m, desvio |-> s, valores |-> v] : v \in Normal(m, s, n)} :
              n \in cfg.n_faturas_min..cfg.n_faturas_max,
              m \in Uniform(cfg.valor_minimo, cfg.valor_maximo),
              s \in Uniform(cfg.sd_min, cfg.sd_max)}

GerarFaturas ==
    /\ pc = "clientes"
    /\ cfg.n_faturas_min <= cfg.n_faturas_max
    /\ LET clientes == ClientesUnicos(df_clientes)
       IN \E sorteio \in [1..Len(clientes) -> SorteiosCliente] :
             df_faturas' = TabelaFaturas(clientes,
                                         [i \in 1..Len(clientes) |-> sorteio[i].valores])
    /\ pc' = "faturas"
    /\ UNCHANGED <<cfg, df_clientes, df>>

\* np.random.randint raises when low >= high; np.random.normal when the sd
\* drawn for some customer is negative
GerarFaturasErro ==
    /\ pc = "clientes"
    /\ \/ cfg.n_faturas_min > cfg.n_faturas_max
       \/ \E desvios \in [1..Len(ClientesUnicos(df_clientes)) -> Uniform(cfg.sd_min, cfg.sd_max)] :
             \E i \in DOMAIN desvios : desvios[i] < 0
    /\ pc' = "erro"
    /\ UNCHANGED <<cfg, df_clientes, df_faturas, df>>

(***************************************************************************)
(* df_clientes.merge(df_faturas, on='cliente')                             *)
(***************************************************************************)
RECURSIVE MergeFrom(_, _, _)
MergeFrom(esq, dir, i) ==
    IF i > Len(esq) THEN <<>>
    ELSE LET casadas == SelectSeq(dir, LAMBDA r : r["cliente"] = esq[i]["cliente"])
         IN [k \in 1..Len(casadas) |-> casadas[k] @@ esq[i]] \o MergeFrom(esq, dir, i + 1)

MergeClientes(esq, dir) == MergeFrom(esq, dir, 1)

Merge ==
    /\ pc = "faturas"
    /\ df' = MergeClientes(df_clientes, df_faturas)
    /\ pc' = "merge"
    /\ UNCHANGED <<cfg, df_clientes, df_faturas>>

(***************************************************************************)
(* marcar_faturas_pagas                                                    *)
(***************************************************************************)
MaxNumeroFatura(tab, cliente) ==
    LET nums == {tab[i]["numero_fatura"] : i \in {j \in DOMAIN tab : tab[j]["cliente"] = cliente}}
    IN CHOOSE m \in nums : \A n \in nums : n <= m

\* df.groupby('cliente')['numero_fatura'].idxmax(): per customer, the first
\* row holding the customer's largest numero_fatura
IdxMax(tab) ==
    {i \in DOMAIN tab :
        /\ tab[i]["numero_fatura"] = MaxNumeroFatura(tab, tab[i]["cliente"])
        /\ \A j \in 1..(i - 1) : ~SameKey(tab[j], tab[i])}

\* faulty variant: the range of the comment, the last two invoices before the most recent
FaturasCandidatasDuas(max_numero_fatura) == (max_numero_fatura - 2)..(max_numero_fatura - 1)

\* range(max_numero_fatura - 1, max_numero_fatura)
FaturasCandidatas(max_numero_fatura) == (max_numero_fatura - 1)..(max_numero_fatura - 1)

\* faulty variant: the second unpaid invoice also for customers of two invoices
MarcarFaturasPagasDesdeDuas(tab, fatura_aleatoria) ==
    SetColumn(tab, "status_pago",
        [i \in 1..Len(tab) |->
            LET cliente == tab[i]["cliente"]
                max_numero_fatura == MaxNumeroFatura(tab, cliente)
            IN /\ i \notin IdxMax(tab)
               /\ ~(/\ max_numero_fatura > 1
                    /\ tab[i]["numero_fatura"] = fatura_aleatoria[cliente])])

\* fatura_aleatoria[cliente] is the random.choice of that customer's iteration
MarcarFaturasPagas(tab, fatura_aleatoria) ==
    SetColumn(tab, "status_pago",
        [i \in 1..Len(tab) |->
            LET cliente == tab[i]["cliente"]
                max_numero_fatura == MaxNumeroFatura(tab, cliente)
            IN /\ i \notin IdxMax(tab)
               /\ ~(/\ max_numero_fatura > 2
                    /\ tab[i]["numero_fatura"] = fatura_aleatoria[cliente])])

MarcarPagas ==
    /\ pc = "merge"
    /\ LET clientes == {df[i]["cliente"] : i \in DOMAIN df}
       IN \E fatura_aleatoria \in
                [clientes -> UNION {FaturasCandidatas(MaxNumeroFatura(df, c)) : c \in clientes}] :
             /\ \A c \in clientes :
                   fatura_aleatoria[c] \in FaturasCandidatas(MaxNumeroFatura(df, c))
             /\ df' = MarcarFaturasPagas(df, fatura_aleatoria)
    /\ pc' = "status_pago"
    /\ UNCHANGED <<cfg, df_clientes, df_faturas>>

(***************************************************************************)
(* calcular_media_vl_fatura, calcular_sd_vl_fatura                         *)
(***************************************************************************)
\* faulty variant: <= for <, the current invoice in its own window
FaturasAteAtual(tab, cliente_indices, numero_fatura, coluna_valor) ==
    LET sel == SelectSeq(cliente_indices, LAMBDA i : tab[i]["numero_fatura"] <= numero_fatura)
    IN [k \in 1..Len(sel) |-> tab[sel[k]][coluna_valor]]

\* df.loc[cliente_indices[df.loc[cliente_indices, 'numero_fatura'] < numero_fatura], coluna_valor]
FaturasAnteriores(tab, cliente_indices, numero_fatura, coluna_valor) ==
    LET sel == SelectSeq(cliente_indices, LAMBDA i : tab[i]["numero_fatura"] < numero_fatura)
    IN [k \in 1..Len(sel) |-> tab[sel[k]][coluna_valor]]

\* faulty variant: invoices 1 and 2 take their own value
MediaDaFaturaPropria(tab, i, coluna_valor) ==
    LET cliente_indices == ClienteIndices(tab, tab[i]["cliente"])
        numero_fatura == tab[i]["numero_fatura"]
    IN IF numero_fatura = 1 \/ numero_fatura = 2
       THEN ToFloat(tab[i][coluna_valor])
       ELSE Mean(TailN(FaturasAnteriores(tab, cliente_indices, numero_fatura, coluna_valor),
                       TailMedia))

MediaDaFatura(tab, i, coluna_valor) ==
    LET cliente_indices == ClienteIndices(tab, tab[i]["cliente"])
        numero_fatura == tab[i]["numero_fatura"]
    IN IF numero_fatura = 1 \/ numero_fatura = 2
       THEN ToFloat(tab[cliente_indices[1]][coluna_valor])
       ELSE Mean(TailN(FaturasAnteriores(tab, cliente_indices, numero_fatura, coluna_valor),
                       TailMedia))

SdDaFatura(tab, i, coluna_valor) ==
    LET cliente_indices == ClienteIndices(tab, tab[i]["cliente"])
        numero_fatura == tab[i]["numero_fatura"]
    IN IF numero_fatura = 1 \/ numero_fatura = 2
       THEN ToFloat(0)
       ELSE Std(TailN(FaturasAnteriores(tab, cliente_indices, numero_fatura, coluna_valor),
                      TailSd))

calcular_media_vl_fatura(tab, coluna_valor, coluna_saida) ==
    LET s == SortValues(tab)
    IN SetColumn(s, coluna_saida, [i \in 1..Len(s) |-> MediaDaFatura(s, i, coluna_valor)])

calcular_sd_vl_fatura(tab, coluna_valor, coluna_saida) ==
    LET s == SortValues(tab)
    IN SetColumn(s, coluna_saida, [i \in 1..Len(s) |-> SdDaFatura(s, i, coluna_valor)])

(***************************************************************************)
(* calcular_zscore_faturas                                                 *)
(***************************************************************************)
\* (valor - media) / sd in floating point: x/0 is +-inf, 0/0 and NaN give NaN
Quociente(valor, media, sd2) ==
    IF IsNaN(media) \/ IsNaN(sd2) THEN ZNaN
    ELSE LET num == valor * media[2] - media[1]
         IN IF sd2[1] = 0
            THEN IF num = 0 THEN ZNaN ELSE [sinal |-> Sinal(num), quad |-> <<1, 0>>]
            ELSE [sinal |-> Sinal(num),
                  quad |-> Frac(num * num * sd2[2], media[2] * media[2] * sd2[1])]

\* faulty variant: the quotient without the guard
ZScoreSemGuarda(valor, media, sd2) == Quociente(valor, media, sd2)

\* np.where(sd != 0, (valor - media) / sd, 0); NaN != 0 is true
ZScore(valor, media, sd2) ==
    IF sd2 # ToFloat(0) THEN Quociente(valor, media, sd2) ELSE Zero

calcular_zscore_faturas(tab, coluna_valor, coluna_media, coluna_sd, coluna_saida) ==
    SetColumn(tab, coluna_saida,
        [i \in 1..Len(tab) |->
            ZScore(tab[i][coluna_valor], tab[i][coluna_media], tab[i][coluna_sd])])

(***************************************************************************)
(* marcar_pagamento_antes_vencimento, calcular_dias_pagamento              *)
(***************************************************************************)
\* faulty variant: the draw kept whatever status_pago is
marcar_pagamento_sem_status(tab, escolha) ==
    SetColumn(tab, "pago_antes_vencimento", [i \in 1..Len(tab) |-> escolha[i]])

\* escolha[i] is the random.choice([True, False]) of row i
marcar_pagamento_antes_vencimento(tab, escolha) ==
    SetColumn(tab, "pago_antes_vencimento",
        [i \in 1..Len(tab) |-> IF tab[i]["status_pago"] THEN escolha[i] ELSE FALSE])

\* sorteado[i] is TRUE when row i's random.randint gives the top of its range
calcular_dias(x, sorteado) ==
    IF x["pago_antes_vencimento"]
    THEN IF sorteado THEN cfg.dias_max_antecipado ELSE cfg.dias_min_antecipado
    ELSE IF sorteado THEN cfg.dias_max_atraso ELSE cfg.dias_min_atraso

calcular_dias_pagamento(tab, sorteados) ==
    SetColumn(tab, "dias_pagamento",
        [i \in 1..Len(tab) |-> calcular_dias(tab[i], i \in sorteados)])

(***************************************************************************)
(* calcular_frequencia_faturas_aberto_12_meses                             *)
(***************************************************************************)
\* faulty variant: >= for > at the lower limit
FrequenciaDesdeLimite(tab, i, coluna_status) ==
    LET faturas_cliente == SelectSeq(tab, LAMBDA r : r["cliente"] = tab[i]["cliente"])
        limite_superior == tab[i]["numero_fatura"] - 1
        limite_inferior == Max2(1, limite_superior - MesesFrequencia)
        faturas_anteriores ==
            SelectSeq(faturas_cliente,
                      LAMBDA r : /\ r["numero_fatura"] <= limite_superior
                                 /\ r["numero_fatura"] >= limite_inferior)
    IN Sum([k \in 1..Len(faturas_anteriores) |->
               IF ~faturas_anteriores[k][coluna_status] THEN 1 ELSE 0])

FrequenciaDaFatura(tab, i, coluna_status) ==
    LET faturas_cliente == SelectSeq(tab, LAMBDA r : r["cliente"] = tab[i]["cliente"])
        limite_superior == tab[i]["numero_fatura"] - 1
        limite_inferior == Max2(1, limite_superior - MesesFrequencia)
        faturas_anteriores ==
            SelectSeq(faturas_cliente,
                      LAMBDA r : /\ r["numero_fatura"] <= limite_superior
                                 /\ r["numero_fatura"] > limite_inferior)
    IN Sum([k \in 1..Len(faturas_anteriores) |->
               IF ~faturas_anteriores[k][coluna_status] THEN 1 ELSE 0])

calcular_frequencia_faturas_aberto_12_meses(tab, coluna_status, coluna_saida) ==
    LET s == SortValues(tab)
    IN SetColumn(s, coluna_saida, [i \in 1..Len(s) |-> FrequenciaDaFatura(s, i, coluna_status)])

(***************************************************************************)
(* calcular_total_devido                                                   *)
(***************************************************************************)
\* faulty variant: the paid branch filters on status_pago like the unpaid one
TotalSoNaoPagas(tab, i, coluna_status_pago, coluna_pago_antes_vencimento, coluna_valor) ==
    LET faturas_cliente == SelectSeq(tab, LAMBDA r : r["cliente"] = tab[i]["cliente"])
        numero_fatura_atual == tab[i]["numero_fatura"]
        limite_inferior ==
            IF tab[i][coluna_status_pago]
            THEN Max2(1, numero_fatura_atual - MesesPagos)
            ELSE Max2(1, numero_fatura_atual - MesesNaoPagos)
        faturas_analisadas ==
            SelectSeq(faturas_cliente,
                      LAMBDA r : /\ r["numero_fatura"] >= limite_inferior
                                 /\ r["numero_fatura"] < numero_fatura_atual
                                 /\ r[coluna_status_pago] = FALSE)
    IN Sum([k \in 1..Len(faturas_analisadas) |-> faturas_analisadas[k][coluna_valor]])

TotalDaFatura(tab, i, coluna_status_pago, coluna_pago_antes_vencimento, coluna_valor) ==
    LET faturas_cliente == SelectSeq(tab, LAMBDA r : r["cliente"] = tab[i]["cliente"])
        numero_fatura_atual == tab[i]["numero_fatura"]
        faturas_analisadas ==
            IF tab[i][coluna_status_pago]
            THEN LET limite_inferior == Max2(1, numero_fatura_atual - MesesPagos)
                 IN SelectSeq(faturas_cliente,
                              LAMBDA r : /\ r["numero_fatura"] >= limite_inferior
                                         /\ r["numero_fatura"] < numero_fatura_atual
                                         /\ r[coluna_pago_antes_vencimento] = FALSE)
            ELSE LET limite_inferior == Max2(1, numero_fatura_atual - MesesNaoPagos)
                 IN SelectSeq(faturas_cliente,
                              LAMBDA r : /\ r["numero_fatura"] >= limite_inferior
                                         /\ r["numero_fatura"] < numero_fatura_atual
                                         /\ r[coluna_status_pago] = FALSE)
    IN Sum([k \in 1..Len(faturas_analisadas) |-> faturas_analisadas[k][coluna_valor]])

\* faulty variant: the totals written over the amounts as well
total_devido_sobre_valor(tab, coluna_status_pago, coluna_antes, coluna_valor, coluna_saida) ==
    LET s == SortValues(tab)
        totais == [i \in 1..Len(s) |->
                      TotalDaFatura(s, i, coluna_status_pago, coluna_antes, coluna_valor)]
    IN SetColumn(SetColumn(s, coluna_saida, totais), coluna_valor, totais)

calcular_total_devido(tab, coluna_status_pago, coluna_antes, coluna_valor, coluna_saida) ==
    LET s == SortValues(tab)
    IN SetColumn(s, coluna_saida,
           [i \in 1..Len(s) |->
               TotalDaFatura(s, i, coluna_status_pago, coluna_antes, coluna_valor)])

(***************************************************************************)
(* build_fake_dataframe: the stages after the merge, in the order of the   *)
(* pipe.  pc names the last column written.                                *)
(***************************************************************************)
Etapa(de, para, tab) ==
    /\ pc = de
    /\ df' = tab
    /\ pc' = para
    /\ UNCHANGED <<cfg, df_clientes, df_faturas>>

MediaVlFatura ==
    Etapa("status_pago", "media_vl_fatura",
          calcular_media_vl_fatura(df, "vl_fatura", "media_vl_fatura"))

SdVlFatura ==
    Etapa("media_vl_fatura", "sd_vl_fatura",
          calcular_sd_vl_fatura(df, "vl_fatura", "sd_vl_fatura"))

ZscoreFaturas ==
    Etapa("sd_vl_fatura", "zscore_faturas",
          calcular_zscore_faturas(df, "vl_fatura", "media_vl_fatura", "sd_vl_fatura",
                                  "zscore_faturas"))

\* the draws of the paid rows: all TRUE or all FALSE but for at most one
PagamentoAntesVencimento ==
    /\ pc = "zscore_faturas"
    /\ LET pagas == {i \in DOMAIN df : df[i]["status_pago"]}
       IN \E base \in BOOLEAN, S \in Desvios(pagas) :
             df' = marcar_pagamento_antes_vencimento(df,
                       [i \in DOMAIN df |-> IF i \in S THEN ~base ELSE base])
    /\ pc' = "pago_antes_vencimento"
    /\ UNCHANGED <<cfg, df_clientes, df_faturas>>

DiasPagamento ==
    /\ pc = "pago_antes_vencimento"
    /\ \E sorteados \in Desvios(DOMAIN df) : df' = calcular_dias_pagamento(df, sorteados)
    /\ pc' = "dias_pagamento"
    /\ UNCHANGED <<cfg, df_clientes, df_faturas>>

MediaDiasPagamento ==
    Etapa("dias_pagamento", "media_dias_pagamento",
          calcular_media_vl_fatura(df, "dias_pagamento", "media_dias_pagamento"))

SdDiasPagamento ==
    Etapa("media_dias_pagamento", "sd_dias_pagamento",
          calcular_sd_vl_fatura(df, "dias_pagamento", "sd_dias_pagamento"))

ZscoreDiasPagamento ==
    Etapa("sd_dias_pagamento", "zscore_dias_pagamento",
          calcular_zscore_faturas(df, "dias_pagamento", "media_dias_pagamento",
                                  "sd_dias_pagamento", "zscore_dias_pagamento"))

FrequenciaFaturasAberto ==
    Etapa("zscore_dias_pagamento", "frequencia_faturas_aberto_12_meses",
          calcular_frequencia_faturas_aberto_12_meses(df, "pago_antes_vencimento",
                                                      "frequencia_faturas_aberto_12_meses"))

TotalDevido ==
    Etapa("frequencia_faturas_aberto_12_meses", "total_devido",
          calcular_total_devido(df, "status_pago", "pago_antes_vencimento", "vl_fatura",
                                "total_devido"))

MediaTotalDevido ==
    Etapa("total_devido", "media_total_devido",
          calcular_media_vl_fatura(df, "total_devido", "media_total_devido"))

SdTotalDevido ==
    Etapa("media_total_devido", "sd_total_devido",
          calcular_sd_vl_fatura(df, "total_devido", "sd_total_devido"))

ZscoreTotalDevido ==
    Etapa("sd_total_devido", "zscore_total_devido",
          calcular_zscore_faturas(df, "total_devido", "media_total_devido",
                                  "sd_total_devido", "zscore_total_devido"))

Next ==
    \/ CreateDataframe
    \/ GerarFaturas
    \/ GerarFaturasErro
    \/ Merge
    \/ MarcarPagas
    \/ MediaVlFatura
    \/ SdVlFatura
    \/ ZscoreFaturas
    \/ PagamentoAntesVencimento
    \/ DiasPagamento
    \/ MediaDiasPagamento
    \/ SdDiasPagamento
    \/ ZscoreDiasPagamento
    \/ FrequenciaFaturasAberto
    \/ TotalDevido
    \/ MediaTotalDevido
    \/ SdTotalDevido
    \/ ZscoreTotalDevido

Spec == Init /\ [][Next]_vars

(***************************************************************************)
(* Properties.  They are stated over the table by invoice number, not by   *)
(* row position: Fatura(tab, c, k) is the row of invoice k of customer c.  *)
(***************************************************************************)
\* the customer table holds no name twice
NomesUnicos == \A i, j \in DOMAIN df_clientes :
                  df_clientes[i]["cliente"] = df_clientes[j]["cliente"] => i = j

ClientesDe(tab) == {tab[i]["cliente"] : i \in DOMAIN tab}

LinhasDe(tab, c) == {i \in DOMAIN tab : tab[i]["cliente"] = c}

NFaturas(tab, c) == Cardinality(LinhasDe(tab, c))

Fatura(tab, c, k) ==
    tab[CHOOSE i \in DOMAIN tab : tab[i]["cliente"] = c /\ tab[i]["numero_fatura"] = k]

RECURSIVE SomaDe(_, _, _)
SomaDe(lo, hi, f) == IF lo > hi THEN 0 ELSE f[lo] + SomaDe(lo + 1, hi, f)

\* the three applications of the rolling mean and sd: source, mean, sd, z-score
Aplicacoes ==
    {<<"vl_fatura", "media_vl_fatura", "sd_vl_fatura", "zscore_faturas">>,
     <<"dias_pagamento", "media_dias_pagamento", "sd_dias_pagamento", "zscore_dias_pagamento">>,
     <<"total_devido", "media_total_devido", "sd_total_devido", "zscore_total_devido">>}

\* q is the fraction num/den
IsFrac(q, num, den) == q[2] > 0 /\ q[1] * den = num * q[2]

\* the scenario of the specification: amounts 100, 100, 200, 200, 200
Cenario ==
    [k \in 1..5 |-> [cliente |-> "A", numero_fatura |-> k,
                     vl_fatura |-> IF k <= 2 THEN 100 ELSE 200]]

\* C1: for every invoice k > 2 of every customer, the rolling mean and the
\* rolling sd are those of the values of the customer's invoices
\* max(1, k-12) .. k-1, each taken once: invoice k is not among them, nor any
\* invoice before k-12; in the scenario 100, 100, 200, 200, 200 the means of
\* invoices 3, 4, 5 are 100, 400/3 and 150.
C1_JanelaMediaSd ==
    /\ NomesUnicos =>
         \A a \in Aplicacoes, i \in DOMAIN df :
            LET c == df[i]["cliente"]
                k == df[i]["numero_fatura"]
                lo == Max2(1, k - 12)
                n == k - lo
                s1 == SomaDe(lo, k - 1, [j \in lo..(k - 1) |-> Fatura(df, c, j)[a[1]]])
                s2 == SomaDe(lo, k - 1, [j \in lo..(k - 1) |->
                                           Fatura(df, c, j)[a[1]] * Fatura(df, c, j)[a[1]]])
            IN k > 2 =>
                 /\ HasColumn(df, a[2]) => IsFrac(df[i][a[2]], s1, n)
                 /\ HasColumn(df, a[3]) => IsFrac(df[i][a[3]], n * s2 - s1 * s1, n * (n - 1))
    /\ MediaDaFatura(Cenario, 3, "vl_fatura") = <<100, 1>>
    /\ MediaDaFatura(Cenario, 4, "vl_fatura") = <<400, 3>>
    /\ MediaDaFatura(Cenario, 5, "vl_fatura") = <<150, 1>>

\* C1 witness: the means and sds of a customer with 15 invoices are computed,
\* invoices 2 and 3 (the first outside and the first inside the window of
\* invoice 15) differ in value, and so do the sds of invoices 14 and 15.
C1_Witness ==
    /\ NomesUnicos
    /\ HasColumn(df, "sd_total_devido")
    /\ \E c \in ClientesDe(df) :
          /\ NFaturas(df, c) = 15
          /\ Fatura(df, c, 2)["vl_fatura"] # Fatura(df, c, 3)["vl_fatura"]
          /\ Fatura(df, c, 14)["media_vl_fatura"] # Fatura(df, c, 15)["media_vl_fatura"]

\* C2: for every invoice 1 or 2 of every customer, the rolling mean is the
\* value of the customer's invoice 1 and the rolling sd is 0, in each of the
\* three applications.
C2_PrimeirasFaturas ==
    NomesUnicos =>
      \A a \in Aplicacoes, i \in DOMAIN df :
         LET c == df[i]["cliente"]
             k == df[i]["numero_fatura"]
         IN k \in {1, 2} =>
              /\ HasColumn(df, a[2]) => df[i][a[2]] = <<Fatura(df, c, 1)[a[1]], 1>>
              /\ HasColumn(df, a[3]) => df[i][a[3]] = <<0, 1>>

\* C2 witness: all three means are computed, there are two customers whose
\* invoices 1 differ in amount, and one has an invoice 2 whose amount is not
\* that of its invoice 1.
C2_Witness ==
    /\ NomesUnicos
    /\ HasColumn(df, "sd_total_devido")
    /\ \E c, d \in ClientesDe(df) :
          /\ c # d
          /\ Fatura(df, c, 1)["vl_fatura"] # Fatura(df, d, 1)["vl_fatura"]
          /\ NFaturas(df, c) >= 2
          /\ Fatura(df, c, 2)["vl_fatura"] # Fatura(df, c, 1)["vl_fatura"]
          /\ Fatura(df, c, 2)["media_vl_fatura"] = <<Fatura(df, c, 1)["vl_fatura"], 1>>

NumeradasEmOrdem(tab, c) ==
    LET idx == ClienteIndices(tab, c)
    IN /\ \A p \in 1..Len(idx) : tab[idx[p]]["numero_fatura"] = p
       /\ Len(idx) \in cfg.n_faturas_min..cfg.n_faturas_max

\* C4: in the table gerar_faturas returns, and in the orchestrator's table
\* from the merge on (unique customer names), the invoices of every customer
\* carry exactly the numbers 1..N, N the count drawn, each once, in draw
\* order.
C4_NumerosContiguos ==
    /\ \A c \in ClientesDe(df_faturas) : NumeradasEmOrdem(df_faturas, c)
    /\ \A c \in ClientesDe(df) :
          {df[i]["numero_fatura"] : i \in LinhasDe(df, c)} = 1..NFaturas(df_faturas, c)
    /\ NomesUnicos =>
         \A c \in ClientesDe(df) :
            /\ NFaturas(df, c) = NFaturas(df_faturas, c)
            /\ NumeradasEmOrdem(df, c)

\* C4 witness: the merge has just run on two customers with different counts,
\* listed in the customer table in the reverse of their string order.
C4_Witness ==
    /\ NomesUnicos
    /\ pc = "merge"
    /\ Len(df_clientes) = 2
    /\ df_clientes[1]["cliente"] = "B"
    /\ NFaturas(df, "A") = 3
    /\ NFaturas(df, "B") = 2

\* the amount of invoice j of customer c if it is open in column col, else 0
ValorSeAberta(tab, c, j, col) ==
    IF ~Fatura(tab, c, j)[col] THEN Fatura(tab, c, j)["vl_fatura"] ELSE 0

\* C5: total_devido of a paid invoice k is the sum of the amounts of the
\* customer's invoices max(1, k-3) .. k-1 with pago_antes_vencimento false; of
\* an unpaid invoice k, the sum of the amounts of the customer's invoices
\* max(1, k-12) .. k-1 with status_pago false; invoice k itself is never in
\* the sum, and the sum is 0 when no invoice qualifies.
C5_TotalDevido ==
    (NomesUnicos /\ HasColumn(df, "total_devido")) =>
      \A i \in DOMAIN df :
         LET c == df[i]["cliente"]
             k == df[i]["numero_fatura"]
             lo3 == Max2(1, k - 3)
             lo12 == Max2(1, k - 12)
         IN df[i]["total_devido"] =
              IF df[i]["status_pago"]
              THEN SomaDe(lo3, k - 1,
                          [j \in lo3..(k - 1) |-> ValorSeAberta(df, c, j, "pago_antes_vencimento")])
              ELSE SomaDe(lo12, k - 1,
                          [j \in lo12..(k - 1) |-> ValorSeAberta(df, c, j, "status_pago")])

\* C5 witness: total_devido is computed; a paid invoice k >= 5 has a late
\* invoice k-4 outside its window and an early invoice k-1 inside it, and its
\* total is the amounts of k-3 and k-2; the last invoice N > 2 is unpaid and
\* its total is the amount of N-1; invoice 1 has total 0.
C5_Witness ==
    /\ NomesUnicos
    /\ pc = "total_devido"
    /\ \E c \in ClientesDe(df) :
          LET N == NFaturas(df, c)
          IN /\ N > 2
             /\ Fatura(df, c, N)["total_devido"] = Fatura(df, c, N - 1)["vl_fatura"]
             /\ Fatura(df, c, 1)["total_devido"] = 0
             /\ \E k \in 5..N :
                   /\ Fatura(df, c, k)["status_pago"]
                   /\ ~Fatura(df, c, k - 4)["pago_antes_vencimento"]
                   /\ Fatura(df, c, k - 1)["pago_antes_vencimento"]
                   /\ Fatura(df, c, k)["total_devido"] =
                         Fatura(df, c, k - 3)["vl_fatura"] + Fatura(df, c, k - 2)["vl_fatura"]
                   /\ Fatura(df, c, k - 3)["vl_fatura"] # Fatura(df, c, k - 2)["vl_fatura"]

\* the open invoices (pago_antes_vencimento false) of customer c numbered lo..hi
Abertas(tab, c, lo, hi) ==
    Cardinality({j \in lo..hi : ~Fatura(tab, c, j)["pago_antes_vencimento"]})

\* C6: the open-invoice frequency of invoice k counts the open invoices among
\* all the invoices max(1, k-12) .. k-1 of the customer; for 2 <= k <= 13 an
\* open invoice 1 is counted.
C6_JanelaDozeAnteriores ==
    (NomesUnicos /\ HasColumn(df, "frequencia_faturas_aberto_12_meses")) =>
      \A i \in DOMAIN df :
         LET c == df[i]["cliente"]
             k == df[i]["numero_fatura"]
         IN df[i]["frequencia_faturas_aberto_12_meses"] = Abertas(df, c, Max2(1, k - 12), k - 1)

IsZScore(z, valor, media, sd2) ==
    LET num == valor * media[2] - media[1]
    IN /\ z.sinal = Sinal(num)
       /\ z.quad[2] > 0
       /\ z.quad[1] * media[2] * media[2] * sd2[1] = num * num * sd2[2] * z.quad[2]

\* C8: in the final table, each of the three z-scores of every invoice is 0
\* when its rolling sd is 0 and (value - rolling mean) / rolling sd otherwise,
\* and it is a number: no division by a zero sd surfaces as inf or NaN.
C8_ZScore ==
    pc = "zscore_total_devido" =>
      \A a \in Aplicacoes, i \in DOMAIN df :
         LET z == df[i][a[4]]
             sd2 == df[i][a[3]]
         IN /\ sd2[2] > 0
            /\ z.quad[2] > 0
            /\ sd2[1] = 0 => z = [sinal |-> 0, quad |-> <<0, 1>>]
            /\ sd2[1] # 0 => IsZScore(z, df[i][a[1]], df[i][a[2]], sd2)

\* C8 witness: the final table holds an invoice k > 2 whose amount sd is 0 while
\* its amount differs from the rolling mean (the quotient would be infinite),
\* and an invoice whose amount z-score is negative.
C8_Witness ==
    /\ pc = "zscore_total_devido"
    /\ \E i, j \in DOMAIN df :
          /\ df[i]["numero_fatura"] > 2
          /\ df[i]["sd_vl_fatura"] = <<0, 1>>
          /\ df[i]["media_vl_fatura"] # <<df[i]["vl_fatura"], 1>>
          /\ df[i]["zscore_faturas"].sinal = 0
          /\ df[j]["zscore_faturas"].sinal = -1
          /\ df[j]["zscore_dias_pagamento"].sinal # 0

\* C9: from the Payment Timing Simulator on, every invoice with status_pago
\* false has pago_antes_vencimento false.
C9_NaoPagaNaoAntecipada ==
    HasColumn(df, "pago_antes_vencimento") =>
      \A i \in DOMAIN df : ~df[i]["status_pago"] => ~df[i]["pago_antes_vencimento"]

\* C9 witness: marcar_pagamento_antes_vencimento has just run; every paid
\* invoice but one drew True, and the unpaid invoices are marked False.
C9_Witness ==
    /\ pc = "pago_antes_vencimento"
    /\ \E i, j, k \in DOMAIN df :
          /\ df[i]["status_pago"] /\ df[i]["pago_antes_vencimento"]
          /\ df[j]["status_pago"] /\ ~df[j]["pago_antes_vencimento"]
          /\ ~df[k]["status_pago"] /\ ~df[k]["pago_antes_vencimento"]

\* the generated columns of a row
Gerados(r) ==
    [col \in {"cliente", "numero_fatura", "vl_fatura", "status_pago",
              "pago_antes_vencimento", "dias_pagamento"} |-> r[col]]

\* the generated columns of the invoices 1..k of customer c
Historico(tab, c, k) ==
    LET sel == SelectSeq(tab, LAMBDA r : r["cliente"] = c /\ r["numero_fatura"] <= k)
    IN AsSeq([p \in 1..Len(sel) |-> Gerados(sel[p])], Len(sel))

\* the feature stages of build_fake_dataframe, in pipe order, on generated columns
Derivadas(tab) ==
    LET t1 == calcular_media_vl_fatura(tab, "vl_fatura", "media_vl_fatura")
        t2 == calcular_sd_vl_fatura(t1, "vl_fatura", "sd_vl_fatura")
        t3 == calcular_zscore_faturas(t2, "vl_fatura", "media_vl_fatura", "sd_vl_fatura",
                                      "zscore_faturas")
        t4 == calcular_media_vl_fatura(t3, "dias_pagamento", "media_dias_pagamento")
        t5 == calcular_sd_vl_fatura(t4, "dias_pagamento", "sd_dias_pagamento")
        t6 == calcular_zscore_faturas(t5, "dias_pagamento", "media_dias_pagamento",
                                      "sd_dias_pagamento", "zscore_dias_pagamento")
        t7 == calcular_frequencia_faturas_aberto_12_meses(t6, "pago_antes_vencimento",
                                                          "frequencia_faturas_aberto_12_meses")
        t8 == calcular_total_devido(t7, "status_pago", "pago_antes_vencimento", "vl_fatura",
                                    "total_devido")
        t9 == calcular_media_vl_fatura(t8, "total_devido", "media_total_devido")
        t10 == calcular_sd_vl_fatura(t9, "total_devido", "sd_total_devido")
    IN calcular_zscore_faturas(t10, "total_devido", "media_total_devido", "sd_total_devido",
                               "zscore_total_devido")

\* C10: in the final table, every derived feature of invoice k of customer c
\* is the one the feature stages give on the generated columns of c's invoices
\* 1..k alone; so two runs that agree on those agree on the features of
\* invoice k, whatever the other customers' rows, their order and c's later
\* invoices are.
C10_IsolamentoSemOlharAdiante ==
    (NomesUnicos /\ pc = "zscore_total_devido") =>
      \A i \in DOMAIN df :
         LET c == df[i]["cliente"]
             k == df[i]["numero_fatura"]
         IN Fatura(Derivadas(Historico(df, c, k)), c, k) = df[i]

\* C10 witness: the final table holds two customers, listed in the reverse of
\* their string order, that differ in the amount of invoice 1; one has an
\* invoice k followed by a later invoice of another amount.
C10_Witness ==
    /\ NomesUnicos
    /\ pc = "zscore_total_devido"
    /\ Len(df_clientes) = 2
    /\ df_clientes[1]["cliente"] = "B"
    /\ Fatura(df, "A", 1)["vl_fatura"] # Fatura(df, "B", 1)["vl_fatura"]
    /\ \E c \in ClientesDe(df) :
          /\ NFaturas(df, c) = 3
          /\ Fatura(df, c, 2)["vl_fatura"] # Fatura(df, c, 3)["vl_fatura"]
          /\ Fatura(df, c, 1)["pago_antes_vencimento"]

\* the columns of a table
Colunas(tab) == IF Len(tab) = 0 THEN {} ELSE DOMAIN tab[1]

\* a row cut down to the columns cols
Restrita(r, cols) == [col \in cols |-> r[col]]

\* the rows of tab that hold the values r in the columns cols
Ocorrencias(tab, cols, r) ==
    Cardinality({i \in DOMAIN tab : Restrita(tab[i], cols) = r})

\* the stages of the pipe have a table to work on
NoPipe == pc \notin {"inicio", "clientes", "faturas", "erro"}

\* C11: a stage of the pipe keeps the rows and, in every row, the values of
\* all the columns that existed before it (rows are told apart by the
\* values of those columns, cliente and numero_fatura among them); it adds
\* its own output column, the one pc names, and no other.
C11_EtapaSoAcrescenta ==
    [][NoPipe =>
         LET cols == Colunas(df)
         IN /\ Len(df') = Len(df)
            /\ pc' \notin cols
            /\ \A i \in DOMAIN df' : DOMAIN df'[i] = cols \cup {pc'}
            /\ \A i \in DOMAIN df :
                  Ocorrencias(df', cols, Restrita(df[i], cols)) =
                     Ocorrencias(df, cols, Restrita(df[i], cols))]_vars

\* C11 witness: the final table of two customers listed in the reverse of
\* their string order: the stages have sorted the rows, customer A first, and
\* the amounts are still those gerar_faturas drew.
C11_Witness ==
    /\ NomesUnicos
    /\ pc = "zscore_total_devido"
    /\ Len(df_clientes) = 2
    /\ df_clientes[1]["cliente"] = "B"
    /\ df_faturas[1]["cliente"] = "B"
    /\ df[1]["cliente"] = "A"
    /\ Fatura(df, "A", 1)["vl_fatura"] # Fatura(df, "B", 1)["vl_fatura"]
    /\ \A i \in DOMAIN df :
          df[i]["vl_fatura"] =
             Fatura(df_faturas, df[i]["cliente"], df[i]["numero_fatura"])["vl_fatura"]

(***************************************************************************)
(* C12 -- a call with a malformed configuration (n_faturas_min above       *)
(* n_faturas_max, or an sd_min or sd_max that is not positive) ends in the *)
(* error state before any generation step: no customer is generated and    *)
(* no count, mean, sd or amount is drawn, so such a run is only ever at    *)
(* its start or in the error state.                                        *)
(***************************************************************************)
Malformada(c) ==
    \/ c.n_faturas_min > c.n_faturas_max
    \/ c.sd_min <= 0
    \/ c.sd_max <= 0

C12_FalhaAntesDeGerar ==
    Malformada(cfg) =>
        /\ pc \in {"inicio", "erro"}
        /\ df_clientes = <<>>
        /\ df_faturas = <<>>

============================================================================
